---- MODULE Spec2Model ----
(***************************************************************************)
(* Model of the task store engine of cli_task_manager                      *)
(* (src/src/task_manager.rs): the in-memory HashMap<u32, Task>, the        *)
(* next_id counter, the JSON file behind it, and the operations            *)
(* TaskManager::new, add_task, delete_task, update_status and              *)
(* list_tasks_sorted_by_priority with their calls to save_tasks and        *)
(* load_tasks.                                                             *)
(***************************************************************************)
EXTENDS Integers, Sequences, FiniteSets, TLC

(***************************************************************************)
(* Bounds of the model.                                                    *)
(***************************************************************************)
\* The largest value of the id type. The program's ids are u32; the model
\* keeps the arithmetic of a fixed-width unsigned integer and narrows the
\* width, so that the top of the range is within reach of the check.
MaxU32 == 3
\* A behaviour that starts from any file holds at most this many calls that
\* change the mapping.
MaxMutations == 2
\* A behaviour that starts with no file holds at most this many.
MaxFreshMutations == 3
\* At most this many of the disk writes of a behaviour fail.
MaxWriteFailures == 1

U32 == 0..MaxU32

(***************************************************************************)
(* Data model: enum TaskStatus, enum TaskPriority, struct Task.            *)
(***************************************************************************)
TaskStatus == {"Todo", "InProgress", "Done"}

TaskPriority == {"Low", "Medium", "High"}

\* `*self as u8`: the discriminant of a TaskPriority variant.
PriorityAsU8(p) ==
    CASE p = "Low" -> 0
      [] p = "Medium" -> 1
      [] p = "High" -> 2

\* Inputs of the callers: titles, descriptions and the readings of the
\* local clock formatted "%Y-%m-%d %H:%M:%S".
\* A title is the sequence of its characters.
BuyMilk == <<"B", "u", "y", " ", "m", "i", "l", "k">>

Titles == {BuyMilk}

\* What a user can type at the title prompt: a title, nothing, or blanks.
BlankTitles == {<<>>, <<" ">>, <<" ", "\t">>}

\* char::is_whitespace
Whitespace == {" ", "\t", "\n", "\r"}

\* str::trim: the text without its leading and trailing whitespace.
RECURSIVE TrimStart(_)
TrimStart(s) ==
    IF Len(s) > 0 /\ s[1] \in Whitespace THEN TrimStart(Tail(s)) ELSE s

RECURSIVE TrimEnd(_)
TrimEnd(s) ==
    IF Len(s) > 0 /\ s[Len(s)] \in Whitespace
    THEN TrimEnd(SubSeq(s, 1, Len(s) - 1)) ELSE s

Trim(s) == TrimEnd(TrimStart(s))

\* A check of the text as typed, without the trim.
IsEmpty(s) == Len(s) = 0

\* title.trim().is_empty()
TrimmedIsEmpty(s) == Len(Trim(s)) = 0

Descriptions == {"2 liters"}

Timestamps == {"2024-05-01 10:00:00"}

Task(id, title, description, status, created_at, priority) ==
    [id |-> id, title |-> title, description |-> description,
     status |-> status, created_at |-> created_at, priority |-> priority]

(***************************************************************************)
(* u32 arithmetic.  An addition or subtraction that leaves the range       *)
(* panics when the binary was built with overflow checks (the dev          *)
(* profile) and wraps otherwise (the release profile): each overflow is    *)
(* a choice between the two.                                               *)
(***************************************************************************)
Overflows(n) == n < 0 \/ n > MaxU32

Wrap(n) == n % (MaxU32 + 1)

(***************************************************************************)
(* The JSON text of the file.  serde_json writes a HashMap<u32, Task> as  *)
(* an object whose keys are the ids in decimal and whose values are the    *)
(* task objects; it reads a key back by parsing the decimal string as a    *)
(* u32 and rejects a value whose fields or enum tags do not match.         *)
(***************************************************************************)
Digits == <<"0", "1", "2", "3", "4", "5", "6", "7", "8", "9">>

RECURSIVE DecimalString(_)
DecimalString(n) ==
    IF n < 10 THEN <<Digits[n + 1]>>
    ELSE Append(DecimalString(n \div 10), Digits[(n % 10) + 1])

DigitValue(c) ==
    IF \E d \in 1..10 : Digits[d] = c
    THEN (CHOOSE d \in 1..10 : Digits[d] = c) - 1
    ELSE -1

\* The value of a decimal key, or -1 when the key is no u32 (empty, a
\* leading zero, a character that is no digit, or a value out of range).
RECURSIVE ParseDecimal(_)
ParseDecimal(s) ==
    IF Len(s) = 0 THEN 0
    ELSE LET hi == ParseDecimal(SubSeq(s, 1, Len(s) - 1))
             d == DigitValue(s[Len(s)])
         IN IF hi < 0 \/ d < 0 \/ hi * 10 + d > MaxU32 THEN -1
            ELSE hi * 10 + d

ParseU32(s) ==
    IF Len(s) = 0 \/ (Len(s) > 1 /\ s[1] = "0") THEN -1 ELSE ParseDecimal(s)

Absent == [kind |-> "absent", obj |-> <<>>]

Malformed == [kind |-> "malformed", obj |-> <<>>]

JsonFile(obj) == [kind |-> "json", obj |-> obj]

\* serde_json::to_string_pretty(&self.tasks)
Serialize(m) ==
    [s \in {DecimalString(k) : k \in DOMAIN m} |->
        m[CHOOSE k \in DOMAIN m : DecimalString(k) = s]]

\* A JSON value has the shape of a Task.
TaskShaped(o) ==
    /\ o.id \in U32
    /\ o.status \in TaskStatus
    /\ o.priority \in TaskPriority

\* serde_json::from_reader succeeds on this file.
Parses(f) ==
    /\ f.kind = "json"
    /\ \A s \in DOMAIN f.obj : ParseU32(s) >= 0 /\ TaskShaped(f.obj[s])

\* The HashMap<u32, Task> that serde_json::from_reader builds.
Deserialize(obj) ==
    [k \in {ParseU32(s) : s \in DOMAIN obj} |->
        obj[CHOOSE s \in DOMAIN obj : ParseU32(s) = k]]

(***************************************************************************)
(* State.                                                                  *)
(***************************************************************************)
VARIABLES
    pc,              \* "start": no process yet; "ready": a store exists;
                     \* "failed": new returned Err; "panicked": the process
                     \* aborted on an arithmetic overflow
    tasks,           \* TaskManager.tasks
    next_id,         \* TaskManager.next_id
    file,            \* the content of the file at TaskManager.file_path
    last_op,         \* the name of the most recent call
    result,          \* what that call returned
    created,         \* ids returned by add_task on this store, in call order
    ever_assigned,   \* ids returned by add_task on any store of this path
    last_saved,      \* the mapping at the end of the most recent mutation
                     \* whose write succeeded, or as loaded by new
    mutations,       \* calls so far that changed the mapping
    write_failures,  \* disk writes so far that failed
    tui_pc,          \* the full-screen UI: "off" (not started), "draw" (about
                     \* to draw), "key" (waiting for an event), "quit",
                     \* "panicked" (aborted on an index out of bounds)
    list_state,      \* TuiApp.list_state.selected(): <<>> for None, <<i>> for
                     \* Some(i)
    calls            \* history, kept where a specification records it: <<>>,
                     \* or <<c>> for the last call c with its arguments, its
                     \* result, and whether it repeated the call before it

vars == <<pc, tasks, next_id, file, last_op, result, created,
          ever_assigned, last_saved, mutations, write_failures,
          tui_pc, list_state, calls>>

EmptyMap == <<>>

Keys(m) == DOMAIN m

\* HashMap::insert
Insert(m, k, v) == [x \in DOMAIN m \cup {k} |-> IF x = k THEN v ELSE m[x]]

\* A removal that drops the keys below k with it.
RemoveUpTo(m, k) == [x \in {y \in DOMAIN m : y > k} |-> m[x]]

\* HashMap::remove
Remove(m, k) == [x \in DOMAIN m \ {k} |-> m[x]]

MaxOf(S) == CHOOSE x \in S : \A y \in S : y <= x

Result(kind, id, found, list) ==
    [kind |-> kind, id |-> id, found |-> found, list |-> list]

Ok == Result("Ok", 0, FALSE, <<>>)

OkId(id) == Result("Ok", id, FALSE, <<>>)

OkBool(b) == Result("Ok", 0, b, <<>>)

OkList(l) == Result("Ok", 0, FALSE, l)

Err == Result("Err", 0, FALSE, <<>>)

Panic == Result("Panic", 0, FALSE, <<>>)

NoResult == Result("None", 0, FALSE, <<>>)

\* Err("Title cannot be empty".to_string())
TitleCannotBeEmpty == Result("Title cannot be empty", 0, FALSE, <<>>)

(***************************************************************************)
(* The files a store can be pointed at: no file, a file that is not JSON,  *)
(* and objects of at most one entry, among them keys at the top of the id  *)
(* range, a key out of range, an entry whose id field differs from its     *)
(* key, and an entry with an unknown status tag.                           *)
(***************************************************************************)
InitTask(id, status) ==
    Task(id, BuyMilk, "2 liters", status, "2024-05-01 10:00:00", "Low")

InitEntries ==
    {<<DecimalString(k), InitTask(k, "Todo")>> : k \in U32}
    \cup {<<DecimalString(1), InitTask(2, "Todo")>>,
          <<DecimalString(MaxU32 + 1), InitTask(0, "Todo")>>,
          <<DecimalString(1), InitTask(1, "Started")>>}

InitFiles ==
    {Absent, Malformed, JsonFile(<<>>)}
    \cup {JsonFile([s \in {e[1]} |-> e[2]]) : e \in InitEntries}

Init ==
    /\ pc = "start"
    /\ tasks = EmptyMap
    /\ next_id = 1
    /\ file \in InitFiles
    /\ last_op = "none"
    /\ result = NoResult
    /\ created = <<>>
    /\ ever_assigned = {}
    /\ last_saved = EmptyMap
    /\ mutations = 0
    /\ write_failures = 0
    /\ tui_pc = "off"
    /\ list_state = <<>>
    /\ calls = <<>>

(***************************************************************************)
(* TaskManager::new, with load_tasks when the file exists.                 *)
(***************************************************************************)
\* self.tasks.keys().max().map_or(1, |max| max + 1), before the width applies
NextIdAfterLoad(m) == IF Keys(m) = {} THEN 1 ELSE MaxOf(Keys(m)) + 1

\* The store does not exist after this call: every field is dropped.
NoStore(state, res) ==
    /\ pc' = state
    /\ tasks' = EmptyMap
    /\ next_id' = 1
    /\ result' = res
    /\ last_saved' = EmptyMap

NewStore(m, n) ==
    /\ pc' = "ready"
    /\ tasks' = m
    /\ next_id' = n
    /\ result' = Ok
    /\ last_saved' = m

\* new falling back to an empty store when the file cannot be read.
ConstructEmptyOnBadFile ==
    /\ last_op' = "new"
    /\ created' = <<>>
    /\ UNCHANGED <<file, ever_assigned, mutations, write_failures>>
    /\ \/ /\ ~Parses(file)
          /\ NewStore(EmptyMap, 1)
       \/ /\ Parses(file)
          /\ LET m == Deserialize(file.obj)
                 n == NextIdAfterLoad(m)
             IN \/ /\ ~Overflows(n)
                   /\ NewStore(m, n)
                \/ /\ Overflows(n)
                   /\ NoStore("panicked", Panic)
                \/ /\ Overflows(n)
                   /\ NewStore(m, Wrap(n))

Construct ==
    /\ last_op' = "new"
    /\ created' = <<>>
    /\ UNCHANGED <<file, ever_assigned, mutations, write_failures>>
    /\ \/ /\ file.kind = "absent"
          /\ NewStore(EmptyMap, 1)
       \/ /\ file.kind # "absent"
          /\ ~Parses(file)
          /\ NoStore("failed", Err)
       \/ /\ Parses(file)
          /\ LET m == Deserialize(file.obj)
                 n == NextIdAfterLoad(m)
             IN \/ /\ ~Overflows(n)
                   /\ NewStore(m, n)
                \/ /\ Overflows(n)
                   /\ NoStore("panicked", Panic)
                \/ /\ Overflows(n)
                   /\ NewStore(m, Wrap(n))

(***************************************************************************)
(* TaskManager::save_tasks: the file after the call.  The open truncates,  *)
(* so a write that fails after it leaves a proper prefix of the JSON text, *)
(* which is no JSON; an open that fails leaves the file as it was.         *)
(***************************************************************************)
SaveOutcomes == {"written", "open_failed", "write_failed"}

\* The count of failed writes after a write with this outcome.
Failures(outcome) == IF outcome = "written" THEN write_failures ELSE write_failures + 1

\* save_tasks opening the file without truncate(true): a text shorter than
\* the one it overwrites keeps the tail of the old text and is no JSON.
SaveTasksWithoutTruncate(m, f, outcome) ==
    CASE outcome = "written" ->
            IF f.kind = "json" /\ Cardinality(DOMAIN f.obj) > Cardinality(Keys(m))
            THEN Malformed ELSE JsonFile(Serialize(m))
      [] outcome = "open_failed" -> f
      [] outcome = "write_failed" -> Malformed

\* save_tasks reporting an error raised after the whole text was written.
SaveTasksFailsAfterWrite(m, f, outcome) ==
    CASE outcome = "written" -> JsonFile(Serialize(m))
      [] outcome = "open_failed" -> f
      [] outcome = "write_failed" -> JsonFile(Serialize(m))

\* save_tasks writing the entries of the mapping into the file that is
\* there, instead of replacing the file.
SaveTasksMergingIntoFile(m, f, outcome) ==
    CASE outcome = "written" ->
            IF Parses(f)
            THEN LET old == Deserialize(f.obj)
                 IN JsonFile(Serialize([k \in Keys(old) \cup Keys(m) |->
                                          IF k \in Keys(m) THEN m[k] ELSE old[k]]))
            ELSE JsonFile(Serialize(m))
      [] outcome = "open_failed" -> f
      [] outcome = "write_failed" -> Malformed

SaveTasks(m, f, outcome) ==
    CASE outcome = "written" -> JsonFile(Serialize(m))
      [] outcome = "open_failed" -> f
      [] outcome = "write_failed" -> Malformed

(***************************************************************************)
(* TaskManager::add_task                                                   *)
(***************************************************************************)
\* add_task building the task with a status other than Todo.
NewTaskInProgress(id, title, description, now, priority) ==
    Task(id, title, description, "InProgress", now, priority)

NewTask(id, title, description, now, priority) ==
    Task(id, title, description, "Todo", now, priority)

\* `self.next_id - 1` underflows only when `self.next_id += 1` has wrapped in
\* this call, that is in a binary that wraps.
AddTask(title, description, priority, now, outcome) ==
    /\ pc = "ready"
    /\ mutations' = mutations + 1
    /\ last_op' = "add_task"
    /\ LET task == NewTask(next_id, title, description, now, priority)
           inserted == Insert(tasks, task.id, task)
           n == next_id + 1
       IN \/ /\ Overflows(n)
             /\ pc' = "panicked"
             /\ tasks' = inserted
             /\ result' = Panic
             /\ UNCHANGED <<next_id, file, created, ever_assigned, last_saved,
                            write_failures>>
          \/ /\ write_failures' = Failures(outcome)
             /\ tasks' = inserted
             /\ next_id' = Wrap(n)
             /\ file' = SaveTasks(inserted, file, outcome)
             /\ \/ /\ outcome # "written"
                   /\ result' = Err
                   /\ UNCHANGED <<pc, created, ever_assigned, last_saved>>
                \/ /\ outcome = "written"
                   /\ result' = OkId(Wrap(Wrap(n) - 1))
                   /\ created' = Append(created, Wrap(Wrap(n) - 1))
                   /\ ever_assigned' = ever_assigned \cup {Wrap(Wrap(n) - 1)}
                   /\ last_saved' = inserted
                   /\ UNCHANGED pc

(***************************************************************************)
(* TaskApp::add_task_logic, the line-prompt layer's way to add_task: a     *)
(* title that is empty after the trim is turned down before the store is   *)
(* called; any other title goes to add_task as typed.                      *)
(***************************************************************************)
AddTaskLogic(title, description, priority, now, outcome) ==
    \/ /\ pc = "ready"
       /\ last_op' = "add_task_logic"
       /\ TrimmedIsEmpty(title)
       /\ result' = TitleCannotBeEmpty
       /\ UNCHANGED <<pc, tasks, next_id, file, created, ever_assigned,
                      last_saved, mutations, write_failures>>
    \/ /\ ~TrimmedIsEmpty(title)
       /\ AddTask(title, description, priority, now, outcome)

(***************************************************************************)
(* TaskManager::delete_task                                                *)
(***************************************************************************)
\* self.tasks.remove(&id).is_some(), then save_tasks
DeleteFound(id, outcome) ==
    /\ pc = "ready"
    /\ last_op' = "delete_task"
    /\ id \in Keys(tasks)
    /\ mutations' = mutations + 1
    /\ write_failures' = Failures(outcome)
    /\ tasks' = Remove(tasks, id)
    /\ file' = SaveTasks(Remove(tasks, id), file, outcome)
    /\ result' = IF outcome = "written" THEN OkBool(TRUE) ELSE Err
    /\ last_saved' = IF outcome = "written" THEN Remove(tasks, id) ELSE last_saved
    /\ UNCHANGED <<pc, next_id, created, ever_assigned>>

\* delete_task saving the mapping also when the id was not found.
DeleteMissingSaves(id) ==
    /\ pc = "ready"
    /\ last_op' = "delete_task"
    /\ id \notin Keys(tasks)
    /\ result' = OkBool(FALSE)
    /\ file' = SaveTasks(tasks, file, "written")
    /\ UNCHANGED <<pc, tasks, next_id, created, ever_assigned, last_saved,
                   mutations, write_failures>>

\* self.tasks.remove(&id) is None
DeleteMissing(id) ==
    /\ pc = "ready"
    /\ last_op' = "delete_task"
    /\ id \notin Keys(tasks)
    /\ result' = OkBool(FALSE)
    /\ UNCHANGED <<pc, tasks, next_id, file, created, ever_assigned, last_saved,
                   mutations, write_failures>>

(***************************************************************************)
(* TaskManager::update_status                                              *)
(***************************************************************************)
\* The status set on every task of the mapping.
SetStatusOfAll(m, id, status) == [k \in DOMAIN m |-> [m[k] EXCEPT !.status = status]]

\* task.status = status
SetStatus(m, id, status) == [m EXCEPT ![id].status = status]

\* update_status undoing the change when the save fails.
UpdateFoundRollsBack(id, status, outcome) ==
    /\ pc = "ready"
    /\ last_op' = "update_status"
    /\ id \in Keys(tasks)
    /\ mutations' = mutations + 1
    /\ write_failures' = Failures(outcome)
    /\ tasks' = IF outcome = "written" THEN SetStatus(tasks, id, status) ELSE tasks
    /\ file' = SaveTasks(SetStatus(tasks, id, status), file, outcome)
    /\ result' = IF outcome = "written" THEN OkBool(TRUE) ELSE Err
    /\ last_saved' = IF outcome = "written" THEN SetStatus(tasks, id, status)
                     ELSE last_saved
    /\ UNCHANGED <<pc, next_id, created, ever_assigned>>

\* update_status refusing to move a task back to an earlier status.
UpdateFoundForwardOnly(id, status, outcome) ==
    /\ pc = "ready"
    /\ last_op' = "update_status"
    /\ id \in Keys(tasks)
    /\ <<tasks[id].status, status>> \notin
          {<<"Done", "InProgress">>, <<"Done", "Todo">>, <<"InProgress", "Todo">>}
    /\ mutations' = mutations + 1
    /\ write_failures' = Failures(outcome)
    /\ tasks' = SetStatus(tasks, id, status)
    /\ file' = SaveTasks(SetStatus(tasks, id, status), file, outcome)
    /\ result' = IF outcome = "written" THEN OkBool(TRUE) ELSE Err
    /\ last_saved' = IF outcome = "written" THEN SetStatus(tasks, id, status)
                     ELSE last_saved
    /\ UNCHANGED <<pc, next_id, created, ever_assigned>>

\* update_status answering Ok(false), without a write, when the task already
\* has the status.
UpdateFoundReportsChange(id, status, outcome) ==
    /\ pc = "ready"
    /\ last_op' = "update_status"
    /\ id \in Keys(tasks)
    /\ mutations' = mutations + 1
    /\ IF tasks[id].status = status
       THEN /\ result' = OkBool(FALSE)
            /\ UNCHANGED <<tasks, file, last_saved, write_failures>>
       ELSE /\ write_failures' = Failures(outcome)
            /\ tasks' = SetStatus(tasks, id, status)
            /\ file' = SaveTasks(SetStatus(tasks, id, status), file, outcome)
            /\ result' = IF outcome = "written" THEN OkBool(TRUE) ELSE Err
            /\ last_saved' = IF outcome = "written"
                             THEN SetStatus(tasks, id, status) ELSE last_saved
    /\ UNCHANGED <<pc, next_id, created, ever_assigned>>

\* self.tasks.get_mut(&id) is Some(task), then save_tasks
UpdateFound(id, status, outcome) ==
    /\ pc = "ready"
    /\ last_op' = "update_status"
    /\ id \in Keys(tasks)
    /\ mutations' = mutations + 1
    /\ write_failures' = Failures(outcome)
    /\ tasks' = SetStatus(tasks, id, status)
    /\ file' = SaveTasks(SetStatus(tasks, id, status), file, outcome)
    /\ result' = IF outcome = "written" THEN OkBool(TRUE) ELSE Err
    /\ last_saved' = IF outcome = "written" THEN SetStatus(tasks, id, status)
                     ELSE last_saved
    /\ UNCHANGED <<pc, next_id, created, ever_assigned>>

\* self.tasks.get_mut(&id) is None
UpdateMissing(id, status) ==
    /\ pc = "ready"
    /\ last_op' = "update_status"
    /\ id \notin Keys(tasks)
    /\ result' = OkBool(FALSE)
    /\ UNCHANGED <<pc, tasks, next_id, file, created, ever_assigned, last_saved,
                   mutations, write_failures>>

(***************************************************************************)
(* TaskManager::list_tasks_sorted_by_priority.  values() yields the tasks  *)
(* in the HashMap's iteration order, which is any order; sort_by is a      *)
(* stable sort on the priority.                                            *)
(***************************************************************************)
\* The orders in which a HashMap with these keys can be iterated.
IterationOrders(S) ==
    {o \in [1..Cardinality(S) -> S] : \A i, j \in DOMAIN o : o[i] = o[j] => i = j}

\* a.priority.cmp(&b.priority) is not Greater
PriorityLe(a, b) == PriorityAsU8(a.priority) <= PriorityAsU8(b.priority)

\* t placed after every element of the sorted sequence s that is not greater.
RECURSIVE InsertByPriority(_, _)
InsertByPriority(s, t) ==
    IF Len(s) = 0 THEN <<t>>
    ELSE IF PriorityLe(s[Len(s)], t) THEN Append(s, t)
    ELSE Append(InsertByPriority(SubSeq(s, 1, Len(s) - 1), t), s[Len(s)])

\* The tasks returned in the HashMap's iteration order, without the sort.
KeepIterationOrder(s) == s

RECURSIVE SortByPriority(_)
SortByPriority(s) ==
    IF Len(s) = 0 THEN <<>>
    ELSE InsertByPriority(SortByPriority(SubSeq(s, 1, Len(s) - 1)), s[Len(s)])

\* list_tasks_sorted_by_priority taking the tasks out of the mapping instead
\* of borrowing them.
ListTasksDrainingMap(order) ==
    /\ pc = "ready"
    /\ last_op' = "list_tasks_sorted_by_priority"
    /\ result' = OkList(SortByPriority([i \in DOMAIN order |-> tasks[order[i]]]))
    /\ tasks' = EmptyMap
    /\ UNCHANGED <<pc, next_id, file, created,
                   ever_assigned, last_saved, mutations, write_failures>>

ListTasksSortedByPriority(order) ==
    /\ pc = "ready"
    /\ last_op' = "list_tasks_sorted_by_priority"
    /\ result' = OkList(SortByPriority([i \in DOMAIN order |-> tasks[order[i]]]))
    /\ UNCHANGED <<pc, tasks, next_id, file, created,
                   ever_assigned, last_saved, mutations, write_failures>>

(***************************************************************************)
(* TuiApp, the full-screen UI (tui_app.rs).  It takes a store, selects     *)
(* index 0, and loops: draw the screen, read an event.  It calls the store *)
(* only to list the tasks, and nothing else calls the store meanwhile.     *)
(***************************************************************************)
\* The store is called from outside the full-screen UI, and no record of
\* the call is kept.
InStore == tui_pc = "off" /\ UNCHANGED <<tui_pc, list_state, calls>>

StoreVars == <<pc, tasks, next_id, file, last_op, result, created,
               ever_assigned, last_saved, mutations, write_failures>>

\* self.task_manager.list_tasks_sorted_by_priority().len()
ListLen == Cardinality(Keys(tasks))

\* TuiApp::new and the start of run
TuiNew ==
    /\ pc = "ready"
    /\ tui_pc = "off"
    /\ list_state' = <<0>>
    /\ tui_pc' = "draw"
    /\ UNCHANGED <<StoreVars, calls>>

\* TuiApp::ui, called by terminal.draw: with no task it returns after the
\* "No tasks available" pane; otherwise the list is rendered from a clone
\* of list_state, and with Some(selected) the detail pane reads
\* tasks[selected], which panics when selected is no index of the list.
Ui ==
    /\ tui_pc = "draw"
    /\ tui_pc' = IF ListLen # 0 /\ Len(list_state) = 1 /\ list_state[1] >= ListLen
                 THEN "panicked" ELSE "key"
    /\ UNCHANGED list_state
    /\ UNCHANGED <<StoreVars, calls>>

KeyCodes == {"q", "Down", "Up", "Enter", "Other"}

\* The index the Down key selects.
DownIndex ==
    IF Len(list_state) = 0 THEN 0
    ELSE IF list_state[1] = 0
         THEN (IF ListLen = 0 THEN 0 ELSE ListLen - 1)
         ELSE list_state[1] - 1

\* The index the Up key selects.
UpIndex ==
    IF Len(list_state) = 0 THEN 0
    ELSE IF list_state[1] = 0
         THEN (IF ListLen = 0 THEN 0 ELSE ListLen + 1)
         ELSE list_state[1] + 1

\* run_app after the draw: event::read and the match on key.code
HandleKey(key) ==
    /\ tui_pc = "key"
    /\ tui_pc' = IF key = "q" THEN "quit" ELSE "draw"
    /\ list_state' = CASE key = "Down" -> <<DownIndex>>
                        [] key = "Up" -> <<UpIndex>>
                        [] OTHER -> list_state
    /\ UNCHANGED <<StoreVars, calls>>

(***************************************************************************)
(* The specifications.  A call that changes the mapping is offered while   *)
(* the behaviour's budget of such calls lasts, and its write may fail      *)
(* while the budget of failed writes lasts.  Tasks are added through       *)
(* add_task_logic; with a blank title the call returns before it reads the *)
(* priority or reaches a write, so one value of each is offered.           *)
(***************************************************************************)
Allowed(budget, outcome) ==
    /\ mutations < budget
    /\ outcome # "written" => write_failures < MaxWriteFailures

NextWithin(budget) ==
    \/ Construct /\ InStore
    \/ \E title \in Titles, description \in Descriptions,
          priority \in TaskPriority, now \in Timestamps, outcome \in SaveOutcomes :
          /\ Allowed(budget, outcome)
          /\ AddTaskLogic(title, description, priority, now, outcome)
          /\ InStore
    \/ \E title \in BlankTitles, description \in Descriptions, now \in Timestamps :
          AddTaskLogic(title, description, "Low", now, "written") /\ InStore
    \/ \E id \in U32, outcome \in SaveOutcomes :
          Allowed(budget, outcome) /\ DeleteFound(id, outcome) /\ InStore
    \/ \E id \in U32 : DeleteMissing(id) /\ InStore
    \/ \E id \in U32, status \in TaskStatus, outcome \in SaveOutcomes :
          Allowed(budget, outcome) /\ UpdateFound(id, status, outcome) /\ InStore
    \/ \E id \in U32, status \in TaskStatus : UpdateMissing(id, status) /\ InStore
    \/ \E order \in IterationOrders(Keys(tasks)) :
          ListTasksSortedByPriority(order) /\ InStore

Next == NextWithin(MaxMutations)

Spec == Init /\ [][Next]_vars

\* The program started where no file exists yet.
InitFresh == Init /\ file = Absent

NextFresh == NextWithin(MaxFreshMutations)

SpecFresh == InitFresh /\ [][NextFresh]_vars

\* The program started where no file exists yet, its caller only adding
\* tasks, each write succeeding, one call more than the id range has values
\* above zero.
MaxCreates == MaxU32 + 1

NextCreates ==
    \/ Construct /\ InStore
    \/ \E title \in Titles, description \in Descriptions,
          priority \in TaskPriority, now \in Timestamps :
          /\ mutations < MaxCreates
          /\ AddTask(title, description, priority, now, "written")
          /\ InStore

SpecCreates == InitFresh /\ [][NextCreates]_vars

\* The store called from outside the full-screen UI, with a record kept of
\* the call: what was called with which arguments, its result, and whether
\* the call before it was the same call and returned Ok(true).  The failing
\* writes of add_task are left to Spec.
Again(call) ==
    /\ calls # <<>>
    /\ calls[1].call = call
    /\ calls[1].result = OkBool(TRUE)

Recorded(call) ==
    /\ tui_pc = "off"
    /\ calls' = <<[call |-> call, result |-> result', again |-> Again(call)]>>
    /\ UNCHANGED <<tui_pc, list_state>>

NextRepeat ==
    \/ Construct /\ Recorded([op |-> "new"])
    \/ \E title \in Titles, description \in Descriptions,
          priority \in TaskPriority, now \in Timestamps :
          /\ Allowed(MaxMutations, "written")
          /\ AddTaskLogic(title, description, priority, now, "written")
          /\ Recorded([op |-> "add_task", title |-> title,
                       description |-> description, priority |-> priority])
    \/ \E id \in U32, outcome \in SaveOutcomes :
          /\ Allowed(MaxMutations, outcome)
          /\ DeleteFound(id, outcome)
          /\ Recorded([op |-> "delete_task", id |-> id])
    \/ \E id \in U32 :
          DeleteMissing(id) /\ Recorded([op |-> "delete_task", id |-> id])
    \/ \E id \in U32, status \in TaskStatus, outcome \in SaveOutcomes :
          /\ Allowed(MaxMutations, outcome)
          /\ UpdateFound(id, status, outcome)
          /\ Recorded([op |-> "update_status", id |-> id, status |-> status])
    \/ \E id \in U32, status \in TaskStatus :
          /\ UpdateMissing(id, status)
          /\ Recorded([op |-> "update_status", id |-> id, status |-> status])

SpecRepeat == Init /\ [][NextRepeat]_vars

\* The program with the full-screen UI started on a store.
NextTui ==
    \/ NextWithin(MaxMutations)
    \/ TuiNew
    \/ Ui
    \/ \E key \in KeyCodes : HandleKey(key)

SpecTui == Init /\ [][NextTui]_vars

(***************************************************************************)
(* Properties of the store.                                                *)
(***************************************************************************)
Mutators == {"add_task", "delete_task", "update_status"}

\* The last call was a mutation that reported success: add_task returned an
\* id, or delete_task or update_status returned true.
ReportedSuccess ==
    /\ last_op \in Mutators
    /\ result.kind = "Ok"
    /\ last_op = "add_task" \/ result.found

\* The file is well-formed and holds exactly the in-memory mapping.
DiskEqualsMemory == Parses(file) /\ Deserialize(file.obj) = tasks

WriteFailures == {"open_failed", "write_failed"}

\* C1: the ids returned by add_task on one store instance are pairwise
\* distinct and strictly increasing in call order.
C1_CreatedIdsStrictlyIncreasing ==
    \A i, j \in DOMAIN created : i < j => created[i] < created[j]

\* C2: whenever a store exists, next_id is strictly greater than every key of
\* the mapping, and no call on a store instance decreases next_id.
C2_NextIdAboveKeysAndMonotonic ==
    [][/\ pc' = "ready" => \A k \in Keys(tasks') : k < next_id'
       /\ (pc = "ready" /\ pc' = "ready" /\ last_op' # "new") => next_id' >= next_id
      ]_vars

\* C3: an id that add_task has returned is never returned by a later
\* add_task, on this store instance or on one constructed later from the
\* same file.
C3_AssignedIdNeverReassigned ==
    [][Len(created') = Len(created) + 1
          => created'[Len(created')] \notin ever_assigned]_vars

\* C4: whenever a store exists, every key of the mapping maps to a task
\* whose id field equals the key.
C4_KeyEqualsIdField ==
    pc = "ready" => \A k \in Keys(tasks) : tasks[k].id = k

\* C5: an add_task whose write succeeds returns the value next_id had before
\* the call, adds one task under that id with the given title, description
\* and priority and status Todo, increases next_id by exactly one, and leaves
\* every other task unchanged.
C5_CreateEffect ==
    [][\A title \in Titles, description \in Descriptions,
          priority \in TaskPriority, now \in Timestamps :
          (AddTask(title, description, priority, now, "written") /\ result'.kind = "Ok")
          => /\ result'.id = next_id
             /\ next_id \notin Keys(tasks)
             /\ Keys(tasks') = Keys(tasks) \cup {next_id}
             /\ tasks'[next_id] = Task(next_id, title, description, "Todo", now, priority)
             /\ next_id' = next_id + 1
             /\ \A k \in Keys(tasks) \ {next_id} : tasks'[k] = tasks[k]
      ]_vars

\* C6: an add_task whose write fails returns an error, keeps the new task in
\* the mapping under the old next_id and advances next_id by one, so that the
\* mapping holds a task the file does not.
C6_CreateWriteFailureNotRolledBack ==
    [][\A title \in Titles, description \in Descriptions,
          priority \in TaskPriority, now \in Timestamps, outcome \in WriteFailures :
          (AddTask(title, description, priority, now, outcome) /\ pc' = "ready")
          => /\ result' = Err
             /\ next_id \in Keys(tasks')
             /\ tasks'[next_id] = Task(next_id, title, description, "Todo", now, priority)
             /\ next_id' = next_id + 1
             /\ ~(/\ Parses(file')
                  /\ next_id \in Keys(Deserialize(file'.obj))
                  /\ Deserialize(file'.obj)[next_id] = tasks'[next_id])
      ]_vars

\* C7 as claimed: when the task exists and the write fails, delete_task and
\* update_status return an error, the change stays in the mapping, and the
\* file and the mapping are left different.
C7_WriteFailureLeavesDiskInconsistent ==
    [][\A id \in U32, outcome \in WriteFailures :
          /\ DeleteFound(id, outcome)
                => /\ result' = Err
                   /\ tasks' = Remove(tasks, id)
                   /\ ~DiskEqualsMemory'
          /\ \A status \in TaskStatus :
                UpdateFound(id, status, outcome)
                => /\ result' = Err
                   /\ tasks' = SetStatus(tasks, id, status)
                   /\ ~DiskEqualsMemory'
      ]_vars

\* The file after a save that failed: as it was when the open failed,
\* truncated and no JSON when the write failed after the open.
FileAfterFailure(outcome) == IF outcome = "open_failed" THEN file ELSE Malformed

\* C7 as amended: when the task exists and the write fails, delete_task and
\* update_status return an error and the change stays in the mapping; the
\* file is not rewritten with the new mapping (it keeps its content or is left
\* malformed), so the file and the mapping differ whenever they agreed before
\* the call and the call changed the mapping.
C7_WriteFailureKeepsMemoryChange ==
    [][\A id \in U32, outcome \in WriteFailures :
          /\ DeleteFound(id, outcome)
                => /\ result' = Err
                   /\ tasks' = Remove(tasks, id)
                   /\ next_id' = next_id
                   /\ file' = FileAfterFailure(outcome)
                   /\ DiskEqualsMemory => ~DiskEqualsMemory'
          /\ \A status \in TaskStatus :
                UpdateFound(id, status, outcome)
                => /\ result' = Err
                   /\ tasks' = SetStatus(tasks, id, status)
                   /\ next_id' = next_id
                   /\ file' = FileAfterFailure(outcome)
                   /\ (DiskEqualsMemory /\ tasks[id].status # status)
                         => ~DiskEqualsMemory'
      ]_vars

\* A delete_task or update_status has failed on its write, and the file still
\* holds a mapping that is not the one in memory.
C7_Witness ==
    /\ pc = "ready"
    /\ last_op \in {"delete_task", "update_status"}
    /\ result = Err
    /\ Parses(file)
    /\ Deserialize(file.obj) # tasks

\* C8: whenever add_task has returned an id, or delete_task or update_status
\* has returned true, the file holds exactly the in-memory mapping.
C8_SuccessMeansDiskEqualsMemory == ReportedSuccess => DiskEqualsMemory

\* A mutation has reported success after an earlier write had failed, with
\* a task left in the mapping.
C8_Witness ==
    /\ ReportedSuccess
    /\ write_failures > 0
    /\ Keys(tasks) # {}

\* C9: whenever a store exists and the file is well-formed, the file holds
\* the mapping as it was at the end of the most recent mutation whose write
\* succeeded, or as new loaded it when none has succeeded since.
C9_FileIsLastSavedSnapshot ==
    (pc = "ready" /\ Parses(file)) => Deserialize(file.obj) = last_saved

\* The mapping has moved on from a well-formed file after a failed write.
C9_Witness ==
    /\ pc = "ready"
    /\ Parses(file)
    /\ write_failures > 0
    /\ tasks # last_saved
    /\ last_saved # EmptyMap

\* C10: new, called right after a mutation that reported success, yields a
\* store with the same mapping and with next_id the largest key plus one, or
\* 1 when the mapping is empty.
C10_RoundTrip ==
    [][(pc = "ready" /\ ReportedSuccess /\ Construct)
          => /\ pc' = "ready"
             /\ tasks' = tasks
             /\ next_id' = IF Keys(tasks) = {} THEN 1 ELSE MaxOf(Keys(tasks)) + 1
      ]_vars

\* C11: delete_task and update_status on an id that is no key of the mapping
\* return false, leave the mapping and next_id as they were and attempt no
\* write: the file is untouched and no write can fail, whatever state the
\* file is in.
C11_MissingIdReturnsFalseWithoutWrite ==
    [][\A id \in U32 :
          /\ DeleteMissing(id)
                => /\ result' = OkBool(FALSE)
                   /\ UNCHANGED <<tasks, next_id, file, write_failures>>
          /\ \A status \in TaskStatus :
                UpdateMissing(id, status)
                => /\ result' = OkBool(FALSE)
                   /\ UNCHANGED <<tasks, next_id, file, write_failures>>
      ]_vars

\* A call on a missing id has returned false after a write had failed, with
\* the file not holding the mapping.
C11_Witness ==
    /\ pc = "ready"
    /\ last_op \in {"delete_task", "update_status"}
    /\ result = OkBool(FALSE)
    /\ write_failures > 0
    /\ ~DiskEqualsMemory

\* C12: new on a path whose file exists and does not parse as a task mapping
\* (no JSON, a key that is no u32, a value that is no Task) returns an error
\* and yields no store, neither an empty one nor one loaded in part.
C12_UnparseableFileYieldsNoStore ==
    [][(Construct /\ file.kind # "absent" /\ ~Parses(file))
          => /\ pc' = "failed"
             /\ result' = Err
             /\ tasks' = EmptyMap
      ]_vars

\* new has failed on a JSON file whose content is no task mapping.
C12_Witness ==
    /\ pc = "failed"
    /\ last_op = "new"
    /\ result = Err
    /\ file.kind = "json"
    /\ ~Parses(file)

\* The last call was list_tasks_sorted_by_priority and returned.
Listed == pc = "ready" /\ last_op = "list_tasks_sorted_by_priority"

\* C13: every adjacent pair (a, b) of the sequence returned by
\* list_tasks_sorted_by_priority has priority(a) <= priority(b) in the order
\* Low < Medium < High.
C13_ListIsSortedByPriority ==
    Listed =>
        \A i \in 1..(Len(result.list) - 1) :
            PriorityAsU8(result.list[i].priority)
                <= PriorityAsU8(result.list[i + 1].priority)

\* A list of three tasks holding all three priorities has been returned.
C13_Witness ==
    /\ Listed
    /\ Len(result.list) = 3
    /\ {result.list[i].priority : i \in 1..3} = TaskPriority

\* C14: the sequence returned by list_tasks_sorted_by_priority holds every
\* task of the mapping exactly once and nothing else: its length is the
\* number of keys, its tasks are the mapping's values, and the set of their
\* ids is the set of keys.
C14_ListHoldsEveryTaskOnce ==
    Listed =>
        /\ Len(result.list) = Cardinality(Keys(tasks))
        /\ \A k \in Keys(tasks) :
              Cardinality({i \in 1..Len(result.list) : result.list[i] = tasks[k]}) = 1
        /\ {result.list[i].id : i \in 1..Len(result.list)} = Keys(tasks)

\* C15: list_tasks_sorted_by_priority leaves the mapping, next_id and the
\* content of the file as they were, in every state it is called in.
C15_ListChangesNothing ==
    [][(pc = "ready" /\ last_op' = "list_tasks_sorted_by_priority")
          => UNCHANGED <<pc, tasks, next_id, file>>
      ]_vars

\* A list of two tasks has been returned while the file, after a failed
\* write, does not hold the mapping.
C15_Witness ==
    /\ Listed
    /\ Len(result.list) = 2
    /\ write_failures > 0
    /\ ~DiskEqualsMemory

\* C16: new on a path where no file exists succeeds with an empty mapping and
\* next_id = 1; the first add_task on such a store, its write succeeding,
\* returns 1, and the file then holds exactly one task, under key 1, with
\* id 1 and status Todo.
C16_FreshStoreStartsAtOne ==
    [][/\ (Construct /\ file = Absent)
             => /\ pc' = "ready"
                /\ result' = Ok
                /\ tasks' = EmptyMap
                /\ next_id' = 1
       /\ \A title \in Titles, description \in Descriptions,
             priority \in TaskPriority, now \in Timestamps :
             (/\ file = Absent
              /\ tasks = EmptyMap
              /\ next_id = 1
              /\ AddTask(title, description, priority, now, "written"))
             => /\ result' = OkId(1)
                /\ file' = JsonFile([s \in {<<"1">>} |->
                       Task(1, title, description, "Todo", now, priority)])
      ]_vars

\* The first add_task of a store built without a file has returned 1 and
\* written the file.
C16_Witness ==
    /\ pc = "ready"
    /\ last_op = "add_task"
    /\ result = OkId(1)
    /\ mutations = 1
    /\ created = <<1>>
    /\ file.kind = "json"
    /\ DOMAIN file.obj = {<<"1">>}
    /\ file.obj[<<"1">>].status = "Todo"

\* C17: delete_task on an id present in the mapping, its write succeeding,
\* returns true, removes exactly that key and leaves every other task and
\* next_id as they were.
C17_DeleteRemovesExactlyOneKey ==
    [][\A id \in U32 :
          DeleteFound(id, "written")
             => /\ result' = OkBool(TRUE)
                /\ Keys(tasks') = Keys(tasks) \ {id}
                /\ \A k \in Keys(tasks') : tasks'[k] = tasks[k]
                /\ next_id' = next_id
                /\ pc' = "ready"
      ]_vars

\* A delete_task has returned true and left another task, of a smaller id,
\* in the mapping.
C17_Witness ==
    /\ pc = "ready"
    /\ last_op = "delete_task"
    /\ result = OkBool(TRUE)
    /\ \E k \in Keys(tasks) : k + 1 < next_id

\* C18: update_status on an id present in the mapping, its write succeeding,
\* returns true and sets that task's status; the set of keys, every other
\* field of that task, every other task and next_id are as they were.
C18_UpdateSetsOnlyTheStatus ==
    [][\A id \in U32, status \in TaskStatus :
          UpdateFound(id, status, "written")
             => /\ result' = OkBool(TRUE)
                /\ Keys(tasks') = Keys(tasks)
                /\ tasks'[id] = [tasks[id] EXCEPT !.status = status]
                /\ \A k \in Keys(tasks) \ {id} : tasks'[k] = tasks[k]
                /\ next_id' = next_id
                /\ pc' = "ready"
      ]_vars

\* An update_status has returned true in a mapping of several tasks that do
\* not all have the same status.
C18_Witness ==
    /\ pc = "ready"
    /\ last_op = "update_status"
    /\ result = OkBool(TRUE)
    /\ Cardinality(Keys(tasks)) >= 2
    /\ \E j, k \in Keys(tasks) : tasks[j].status # tasks[k].status

\* C19: under add_task, delete_task, update_status and
\* list_tasks_sorted_by_priority, a task that stays in the mapping keeps its
\* id, title, description, priority and created_at; only its status can
\* change.
C19_OnlyStatusChanges ==
    [][(pc = "ready" /\ last_op' # "new")
          => \A k \in Keys(tasks) \cap Keys(tasks') :
                /\ tasks'[k].id = tasks[k].id
                /\ tasks'[k].title = tasks[k].title
                /\ tasks'[k].description = tasks[k].description
                /\ tasks'[k].priority = tasks[k].priority
                /\ tasks'[k].created_at = tasks[k].created_at
      ]_vars

\* C20: update_status has no transition rule. In every state of a store, for
\* every task of the mapping, whatever its status, and every one of the
\* three statuses as target (the current one and earlier ones included), the
\* call, its write succeeding, is accepted, returns true and leaves the task
\* with the target status.
C20_AnyStatusToAnyStatus ==
    pc = "ready" =>
        \A id \in Keys(tasks), status \in TaskStatus :
            ENABLED (/\ UpdateFound(id, status, "written")
                     /\ result' = OkBool(TRUE)
                     /\ tasks'[id].status = status)

\* An update_status has returned true and left a task Done beside a task
\* that is Todo: a state from which moves back and forth are calls.
C20_Witness ==
    /\ pc = "ready"
    /\ last_op = "update_status"
    /\ result = OkBool(TRUE)
    /\ \E j, k \in Keys(tasks) :
          tasks[j].status = "Done" /\ tasks[k].status = "Todo"

\* C21: in a store built where no file existed, every key of the mapping and
\* every id returned by add_task is at least 1: id 0 is never present.
C21_FreshStoreIdsArePositive ==
    /\ \A k \in Keys(tasks) : k >= 1
    /\ \A i \in 1..Len(created) : created[i] >= 1
    /\ \A id \in ever_assigned : id >= 1

\* C22: in the line-prompt layer, adding a task whose title is empty after
\* the trim is turned down with "Title cannot be empty" before add_task is
\* called: the mapping, next_id and the file are as they were, no id is
\* consumed and no write is attempted.
C22_BlankTitleIsRejected ==
    [][(last_op' \in {"add_task_logic", "add_task"}) =>
          \A title \in BlankTitles, description \in Descriptions,
             priority \in TaskPriority, now \in Timestamps, outcome \in SaveOutcomes :
             AddTaskLogic(title, description, priority, now, outcome)
                => /\ result' = TitleCannotBeEmpty
                   /\ UNCHANGED <<pc, tasks, next_id, file, created, ever_assigned,
                                  mutations, write_failures>>
      ]_vars

\* A blank title has been turned down in a store that holds a task.
C22_Witness ==
    /\ pc = "ready"
    /\ last_op = "add_task_logic"
    /\ result = TitleCannotBeEmpty
    /\ Keys(tasks) # {}

\* C23: when the file does not hold the mapping (a write has failed), the
\* next add_task, delete_task of a present id or update_status of a present
\* id whose write succeeds leaves the file holding the whole mapping as it
\* is after that call, the effect of the failed call included: disk and
\* memory are equal again.
C23_NextSuccessfulWriteHeals ==
    [][(/\ mutations' = mutations + 1
        /\ write_failures' = write_failures
        /\ pc' = "ready"
        /\ ~DiskEqualsMemory)
          => /\ file' = JsonFile(Serialize(tasks'))
             /\ DiskEqualsMemory'
             /\ ReportedSuccess'
      ]_vars

\* Task 1 was added by a call whose write failed, task 2 by the next call,
\* whose write succeeded, and the file holds both.
C23_Witness ==
    /\ pc = "ready"
    /\ last_op = "add_task"
    /\ write_failures = 1
    /\ created = <<2>>
    /\ ever_assigned = {2}
    /\ Keys(tasks) = {1, 2}
    /\ tasks[1].priority = "High"
    /\ DiskEqualsMemory

\* C24: a failed save destroys no persisted data: new, called after a
\* mutation whose write failed (at the open, or at the write after the
\* truncation), succeeds and yields the mapping as of the last save that
\* succeeded.
C24_FailedSaveKeepsPersistedData ==
    [][(/\ last_op \in Mutators
        /\ result = Err
        /\ Construct)
          => /\ pc' = "ready"
             /\ tasks' = last_saved
      ]_vars

\* C25: id allocation stays correct at the top of the id range: a new or an
\* add_task that returns leaves next_id above every key of the mapping, and
\* an add_task never inserts under a key that is taken or under an id this
\* store has returned before.
C25_TopOfRangeAllocation ==
    [][/\ (pc' = "ready" /\ last_op' \in {"new", "add_task"})
             => \A k \in Keys(tasks') : k < next_id'
       /\ (pc = "ready" /\ last_op' = "add_task")
             => /\ next_id \notin Keys(tasks)
                /\ \A i \in 1..Len(created) : created[i] # next_id
      ]_vars

\* C26: in the full-screen UI with a list that is not empty, the selected
\* index is an index of the sorted task list (0 <= selected < number of
\* tasks) whenever the screen is drawn and the detail pane reads
\* tasks[selected], after any sequence of Up and Down keys.
C26_SelectedIndexIsValid ==
    (tui_pc = "draw" /\ ListLen # 0 /\ Len(list_state) = 1)
        => (0 <= list_state[1] /\ list_state[1] < ListLen)

\* The step is a call that repeats the call before it, which returned
\* Ok(true).
RepeatsSuccessfulCall(op) ==
    /\ calls' # <<>>
    /\ calls'[1].again
    /\ calls'[1].call.op = op

\* C27: delete_task and update_status are idempotent on the store:
\* delete_task(id) right after a delete_task(id) that returned Ok(true)
\* returns Ok(false) and leaves the mapping, next_id and the file as they
\* were; update_status(id, s) right after an update_status(id, s) that
\* returned Ok(true) returns Ok(true) and leaves the mapping, next_id and the
\* file's content as they were after the first call.
C27_RepeatedCallChangesNothing ==
    [][ /\ RepeatsSuccessfulCall("delete_task")
            => /\ result' = OkBool(FALSE)
               /\ UNCHANGED <<tasks, next_id, file>>
        /\ RepeatsSuccessfulCall("update_status")
            => /\ result' = OkBool(TRUE)
               /\ UNCHANGED <<tasks, next_id, file>>
      ]_vars

\* C27 as amended: the repeated delete_task returns Ok(false) and changes
\* nothing; the repeated update_status leaves the mapping and next_id as they
\* were and writes the file anew: when that write succeeds it returns
\* Ok(true) and the file's content is what it was, and when it fails it
\* returns an error and the file keeps its content (it could not be opened)
\* or is left malformed.
C27_RepeatedUpdateWritesAgain ==
    [][ /\ RepeatsSuccessfulCall("delete_task")
            => /\ result' = OkBool(FALSE)
               /\ UNCHANGED <<tasks, next_id, file, write_failures>>
        /\ RepeatsSuccessfulCall("update_status")
            => /\ UNCHANGED <<tasks, next_id>>
               /\ write_failures' = write_failures
                     => (result' = OkBool(TRUE) /\ file' = file)
               /\ write_failures' # write_failures
                     => (result' = Err /\ file' \in {file, Malformed})
      ]_vars

\* An update_status to Done has repeated the one before it, and its write
\* succeeded.
C27_Witness ==
    /\ pc = "ready"
    /\ calls # <<>>
    /\ calls[1].again
    /\ calls[1].call.op = "update_status"
    /\ calls[1].call.status = "Done"
    /\ result = OkBool(TRUE)
    /\ tasks[calls[1].call.id].status = "Done"
    /\ DiskEqualsMemory

====
